---------------------------- MODULE Spec2Model ----------------------------
(***************************************************************************)
(* Model of the L10 hand driver (device/models/l10.go): the command        *)
(* execution pipeline of one L10Hand value shared by concurrent callers.   *)
(*                                                                         *)
(* One step of the model is one atomic step of one goroutine: acquiring    *)
(* the hand's RWMutex, a block of code run while holding it, the return of *)
(* the transport's SendMessage, the end of a time.Sleep.  Time is counted  *)
(* in ticks of one settle delay (20 ms).                                   *)
(***************************************************************************)
EXTENDS Integers, Sequences, FiniteSets, TLC

(***************************************************************************)
(* Bounds of the model.                                                    *)
(***************************************************************************)
MaxCalls == 2
MaxClock == 1

(***************************************************************************)
(* The concurrent callers of the hand (goroutines).                        *)
(***************************************************************************)
Procs == {"c1", "c2"}

(***************************************************************************)
(* Program constants.                                                      *)
(***************************************************************************)
FingerLen == 6
PalmLen == 4
FingerDelta == 5
PalmDelta == 8
FingerPrefix == 1
PalmPrefix == 4
MaxFrameLen == 8
SettleTicks == 1
ByteMod == 256

Min(a, b) == IF a < b THEN a ELSE b
Max(a, b) == IF a > b THEN a ELSE b

NoErr == << >>

(***************************************************************************)
(* perturb(base, delta), with the value rand.IntN(2*delta+1) returned as   *)
(* the parameter draw.                                                     *)
(***************************************************************************)
PerturbWrap(base, delta, draw) ==
    (base + (draw - delta)) % ByteMod

perturb(base, delta, draw) ==
    LET offset == draw - delta
        v == Min(Max(base + offset, 0), ByteMod - 1)
    IN  v % ByteMod

(***************************************************************************)
(* The loop "for i, v := range pose { perturbedPose[i] = perturb(v, d) }", *)
(* draws[i] being the value rand.IntN(2*d+1) returns in iteration i.       *)
(***************************************************************************)
PerturbPose(pose, delta, draws) ==
    [i \in 1..Len(pose) |-> perturb(pose[i], delta, draws[i])]

(***************************************************************************)
(* rand.IntN(n) returns any value of 0..n-1.                               *)
(***************************************************************************)
IntN(n) == 0..(n - 1)

(***************************************************************************)
(* The sequences of draws the concurrent model explores for one pose: the  *)
(* smallest offset in every byte and the largest in every byte.            *)
(* SpecPerturb explores every value of IntN for every byte.                *)
(***************************************************************************)
DrawVectors(len, delta) ==
    LET n == 2 * delta + 1
    IN  { [i \in 1..len |-> 0],
          [i \in 1..len |-> n - 1] }

(***************************************************************************)
(* device.NewFingerPoseCommand / device.NewPalmPoseCommand: a Command      *)
(* value is its Type() and its Payload().                                  *)
(***************************************************************************)
NewFingerPoseCommand(payload) == [type |-> "SetFingerPose", payload |-> payload]

NewPalmPoseCommand(payload) == [type |-> "SetPalmPose", payload |-> payload]

NoCmd == [type |-> "none", payload |-> << >>]

NoMsg == [id |-> "none", data |-> << >>]

(***************************************************************************)
(* commandToRawMessageUnsafe(cmd) with h.handType = ht:                    *)
(* [err |-> NoErr, msg |-> frame] or [err |-> the error, msg |-> NoMsg].   *)
(***************************************************************************)
commandToRawMessageNoLimit(cmd, ht) ==
    IF cmd.type = "SetFingerPose"
    THEN [err |-> NoErr, msg |-> [id |-> ht, data |-> <<FingerPrefix>> \o cmd.payload]]
    ELSE IF cmd.type = "SetPalmPose"
    THEN [err |-> NoErr, msg |-> [id |-> ht, data |-> <<PalmPrefix>> \o cmd.payload]]
    ELSE [err |-> <<"UnsupportedCommand">>, msg |-> NoMsg]

commandToRawMessageUnsafe(cmd, ht) ==
    LET prefix == IF cmd.type = "SetFingerPose" THEN FingerPrefix ELSE PalmPrefix
        data == <<prefix>> \o cmd.payload
    IN  IF cmd.type = "SetFingerPose"
        THEN IF Len(data) > MaxFrameLen
             THEN [err |-> <<"FingerFrameTooLong">>, msg |-> NoMsg]
             ELSE [err |-> NoErr, msg |-> [id |-> ht, data |-> data]]
        ELSE IF cmd.type = "SetPalmPose"
        THEN IF Len(data) > MaxFrameLen
             THEN [err |-> <<"PalmFrameTooLong">>, msg |-> NoMsg]
             ELSE [err |-> NoErr, msg |-> [id |-> ht, data |-> data]]
        ELSE [err |-> <<"UnsupportedCommand">>, msg |-> NoMsg]

(***************************************************************************)
(* The preset catalog registered by NewL10Hand (GetL10Presets): a preset   *)
(* has a 6-byte finger pose and a palm pose of 0 or 4 bytes.               *)
(***************************************************************************)
PresetNames == {"fist", "open"}

GetPreset(name) ==
    IF name = "fist"
    THEN [FingerPose |-> <<0, 64, 64, 64, 64, 255>>, PalmPose |-> <<0, 128, 128, 255>>]
    ELSE IF name = "open"
    THEN [FingerPose |-> <<255, 255, 255, 255, 255, 255>>, PalmPose |-> << >>]
    ELSE [FingerPose |-> << >>, PalmPose |-> << >>]

defaultFingerPose == <<64, 64, 64, 64, 64, 64>>

defaultPalmPose == <<128, 128, 128, 128>>

(***************************************************************************)
(* The inputs the callers of the model pass.                               *)
(***************************************************************************)
FingerInputs ==
    { <<0, 3, 64, 128, 252, 255>>,
      <<1, 2, 3, 4, 5>>,
      <<1, 2, 3, 4, 5, 6, 7>> }

PalmInputs ==
    { <<0, 7, 248, 255>>,
      <<1, 2, 3>>,
      <<1, 2, 3, 4, 5>> }

PresetInputs == PresetNames \cup {"unknown"}

CommandInputs ==
    { NewFingerPoseCommand(<<10, 20, 30>>),
      NewFingerPoseCommand(<<1, 2, 3, 4, 5, 6, 7, 8>>),
      NewPalmPoseCommand(<<1, 2, 3, 4, 5, 6, 7, 8>>),
      [type |-> "SetWristPose", payload |-> <<1, 2>>] }

HandTypes == {"left", "right"}

HandTypeInputs == HandTypes \cup {"none"}

TransportErrors == {"TransportError", "DeadlineExceeded"}

(***************************************************************************)
(* State.                                                                  *)
(*   status, handType  fields of the L10Hand                               *)
(*   mutex             h.mutex: the goroutines holding it for writing (w)  *)
(*                     and for reading (r)                                 *)
(*   clock             time.Now(), in ticks                                *)
(*   proc              each caller's position and local variables          *)
(*   ncalls            the number of operations invoked so far             *)
(*   committed         the status as it was when the write lock was last   *)
(*                     released (history variable)                         *)
(*   failures          the number of dispatches so far in which the        *)
(*                     encoder or the transport returned an error          *)
(*                     (history variable)                                  *)
(***************************************************************************)
VARIABLES status, handType, mutex, clock, proc, ncalls, committed, failures

vars == <<status, handType, mutex, clock, proc, ncalls, committed, failures>>

NoSnap == [isConnected |-> FALSE, isActive |-> FALSE, errorCount |-> -1,
           lastError |-> "", lastUpdate |-> -1]

(***************************************************************************)
(* A caller: its position pc, the operation op it invoked (with the preset *)
(* name or hand type name it passed), the step (stage) and input (pose) of *)
(* the SetFingerPose / SetPalmPose call it is in, the locals cmd, rawMsg   *)
(* (msg) and err (fail) of ExecuteCommand, the error ret its operation     *)
(* returned, the time wake its sleep ends, the status copy snap of         *)
(* GetStatus; and, as history, the first bytes tcalls of the frames its    *)
(* operation handed to the transport and the time retAt the last           *)
(* SendMessage returned, and for a Connect or Disconnect the operation     *)
(* prev the caller invoked before it.                                      *)
(***************************************************************************)
Fresh(op, name) ==
    [pc |-> "idle", op |-> op, name |-> name, stage |-> "none", pose |-> << >>,
     cmd |-> NoCmd, msg |-> NoMsg, fail |-> NoErr, ret |-> NoErr, wake |-> 0,
     snap |-> NoSnap, tcalls |-> << >>, retAt |-> -1, prev |-> "none"]

Init ==
    /\ status = [isConnected |-> TRUE, isActive |-> TRUE, errorCount |-> 0,
                 lastError |-> "", lastUpdate |-> 0]
    /\ handType = "right"
    /\ mutex = [w |-> {}, r |-> {}]
    /\ clock = 0
    /\ proc = [p \in Procs |-> Fresh("none", "none")]
    /\ ncalls = 0
    /\ committed = status
    /\ failures = 0

(***************************************************************************)
(* time.Now(): the clock is read where the code reads it, and has stood    *)
(* still or moved on since it was last read.                               *)
(***************************************************************************)
Now == {t \in {clock, clock + 1} : t <= MaxClock \/ t = clock}

(***************************************************************************)
(* sync.RWMutex: Lock waits until nobody holds the mutex, RLock until no   *)
(* writer holds it.                                                        *)
(***************************************************************************)
CanLockUnguarded(p) == TRUE

CanLock(p) == mutex.w = {} /\ mutex.r = {}

CanRLockUnguarded(p) == TRUE

CanRLock(p) == mutex.w = {}

(***************************************************************************)
(* Returns.  OpReturn: the operation the caller invoked returns e.         *)
(***************************************************************************)
OpReturn(r, e) ==
    [r EXCEPT !.pc = "idle", !.cmd = NoCmd, !.msg = NoMsg, !.fail = NoErr,
              !.ret = e, !.wake = 0, !.snap = NoSnap, !.retAt = -1]

Sleep(r, now) == [r EXCEPT !.pc = "sleep", !.wake = now + SettleTicks]

(***************************************************************************)
(* ResetPose after its SetFingerPose / SetPalmPose call returned e.        *)
(***************************************************************************)
ResetPoseAfterIgnoringError(r, kind, e, now) ==
    IF kind = "finger" THEN Sleep(r, now)
    ELSE OpReturn(r, e)

ResetPoseAfter(r, kind, e, now) ==
    IF e # NoErr THEN OpReturn(r, e)
    ELSE IF kind = "finger" THEN Sleep(r, now)
    ELSE OpReturn(r, NoErr)

(***************************************************************************)
(* ExecutePreset after its SetFingerPose / SetPalmPose call returned e.    *)
(***************************************************************************)
ExecutePresetAfter(r, kind, e, now) ==
    IF e # NoErr
    THEN OpReturn(r, <<IF kind = "finger" THEN "PresetFingerFailed"
                                          ELSE "PresetPalmFailed">> \o e)
    ELSE IF kind = "finger" /\ Len(GetPreset(r.name).PalmPose) > 0
    THEN Sleep(r, now)
    ELSE OpReturn(r, NoErr)

(***************************************************************************)
(* SetFingerPose / SetPalmPose returns e to its caller.                    *)
(***************************************************************************)
PoseReturn(r, kind, e, now) ==
    IF r.op = "ResetPose" THEN ResetPoseAfter(r, kind, e, now)
    ELSE IF r.op = "ExecutePreset" THEN ExecutePresetAfter(r, kind, e, now)
    ELSE OpReturn(r, e)

(***************************************************************************)
(* ExecuteCommand returns e to its caller: SetFingerPose and SetPalmPose   *)
(* log the pose (a GetHandType call) when e is nil and return e.           *)
(***************************************************************************)
ECReturn(r, e, now) ==
    IF r.op = "ExecuteCommand" THEN OpReturn(r, e)
    ELSE IF e = NoErr THEN [r EXCEPT !.pc = "sp_log", !.msg = NoMsg]
    ELSE PoseReturn(r, r.stage, e, now)

(***************************************************************************)
(* SetFingerPose(pose) and SetPalmPose(pose) up to their ExecuteCommand    *)
(* call: the length check, the perturbation, the command.                  *)
(***************************************************************************)
SetFingerPoseShortAccepted(r, pose, draws, now) ==
    IF Len(pose) > FingerLen
    THEN PoseReturn([r EXCEPT !.stage = "finger", !.pose = pose],
                    "finger", <<"InvalidPayloadLength">>, now)
    ELSE [r EXCEPT !.pc = "ec_lock", !.stage = "finger", !.pose = pose,
                   !.cmd = NewFingerPoseCommand(PerturbPose(pose, FingerDelta, draws))]

SetFingerPose(r, pose, draws, now) ==
    IF Len(pose) # FingerLen
    THEN PoseReturn([r EXCEPT !.stage = "finger", !.pose = pose],
                    "finger", <<"InvalidPayloadLength">>, now)
    ELSE [r EXCEPT !.pc = "ec_lock", !.stage = "finger", !.pose = pose,
                   !.cmd = NewFingerPoseCommand(PerturbPose(pose, FingerDelta, draws))]

SetPalmPose(r, pose, draws, now) ==
    IF Len(pose) # PalmLen
    THEN PoseReturn([r EXCEPT !.stage = "palm", !.pose = pose],
                    "palm", <<"InvalidPayloadLength">>, now)
    ELSE [r EXCEPT !.pc = "ec_lock", !.stage = "palm", !.pose = pose,
                   !.cmd = NewPalmPoseCommand(PerturbPose(pose, PalmDelta, draws))]

(***************************************************************************)
(* A caller invokes an operation.                                          *)
(***************************************************************************)
Invoke(p) ==
    /\ proc[p].pc = "idle"
    /\ ncalls < MaxCalls
    /\ ncalls' = ncalls + 1

CallSetFingerPose(p) ==
    \E pose \in FingerInputs, draws \in DrawVectors(FingerLen, FingerDelta) :
        /\ Invoke(p)
        /\ proc' = [proc EXCEPT ![p] =
                        SetFingerPose(Fresh("SetFingerPose", "none"), pose, draws, clock)]
        /\ UNCHANGED <<status, handType, mutex, clock, committed, failures>>

CallSetPalmPose(p) ==
    \E pose \in PalmInputs, draws \in DrawVectors(PalmLen, PalmDelta) :
        /\ Invoke(p)
        /\ proc' = [proc EXCEPT ![p] =
                        SetPalmPose(Fresh("SetPalmPose", "none"), pose, draws, clock)]
        /\ UNCHANGED <<status, handType, mutex, clock, committed, failures>>

(***************************************************************************)
(* ResetPose begins with a log line that calls GetHandType.                *)
(***************************************************************************)
CallResetPose(p) ==
    /\ Invoke(p)
    /\ proc' = [proc EXCEPT ![p] = [Fresh("ResetPose", "none") EXCEPT !.pc = "start_log"]]
    /\ UNCHANGED <<status, handType, mutex, clock, committed, failures>>

(***************************************************************************)
(* ExecutePreset: the catalog lookup, then a log line that calls           *)
(* GetHandType.                                                            *)
(***************************************************************************)
ExecutePresetLookupAny(name) == TRUE

ExecutePresetLookup(name) == name \in PresetNames

CallExecutePreset(p) ==
    \E name \in PresetInputs :
        /\ Invoke(p)
        /\ proc' = [proc EXCEPT ![p] =
                        IF ExecutePresetLookup(name)
                        THEN [Fresh("ExecutePreset", name) EXCEPT !.pc = "start_log"]
                        ELSE OpReturn(Fresh("ExecutePreset", name), <<"PresetNotFound">>)]
        /\ UNCHANGED <<status, handType, mutex, clock, committed, failures>>

CallExecuteCommand(p) ==
    \E c \in CommandInputs :
        /\ Invoke(p)
        /\ proc' = [proc EXCEPT ![p] =
                        [Fresh("ExecuteCommand", "none") EXCEPT !.pc = "ec_lock", !.cmd = c]]
        /\ UNCHANGED <<status, handType, mutex, clock, committed, failures>>

CallGetStatus(p) ==
    /\ Invoke(p)
    /\ proc' = [proc EXCEPT ![p] = [Fresh("GetStatus", "none") EXCEPT !.pc = "gs_lock"]]
    /\ UNCHANGED <<status, handType, mutex, clock, committed, failures>>

CallConnect(p) ==
    /\ Invoke(p)
    /\ proc' = [proc EXCEPT ![p] = [Fresh("Connect", "none") EXCEPT !.pc = "cn_lock",
                                                             !.prev = proc[p].op]]
    /\ UNCHANGED <<status, handType, mutex, clock, committed, failures>>

CallDisconnect(p) ==
    /\ Invoke(p)
    /\ proc' = [proc EXCEPT ![p] = [Fresh("Disconnect", "none") EXCEPT !.pc = "dc_lock",
                                                                !.prev = proc[p].op]]
    /\ UNCHANGED <<status, handType, mutex, clock, committed, failures>>

CallSetHandType(p) ==
    \E t \in HandTypeInputs :
        /\ Invoke(p)
        /\ proc' = [proc EXCEPT ![p] = [Fresh("SetHandType", t) EXCEPT !.pc = "sh_lock"]]
        /\ UNCHANGED <<status, handType, mutex, clock, committed, failures>>

(***************************************************************************)
(* The opening log line of ResetPose and ExecutePreset (GetHandType: RLock,*)
(* read, RUnlock), then the SetFingerPose call.                            *)
(***************************************************************************)
StartFinger(p) ==
    /\ proc[p].pc = "start_log"
    /\ CanRLock(p)
    /\ \E draws \in DrawVectors(FingerLen, FingerDelta) :
         proc' = [proc EXCEPT ![p] =
                     SetFingerPose(proc[p],
                                   IF proc[p].op = "ResetPose" THEN defaultFingerPose
                                   ELSE GetPreset(proc[p].name).FingerPose,
                                   draws, clock)]
    /\ UNCHANGED <<status, handType, mutex, clock, ncalls, committed, failures>>

(***************************************************************************)
(* time.Sleep(20 * time.Millisecond) ends, no earlier than SettleTicks     *)
(* after it began, then the SetPalmPose call.                              *)
(***************************************************************************)
SleepSkipped(r, now) == now

SleepEnd(r, now) == Max(now, r.wake)

StartPalm(p) ==
    /\ proc[p].pc = "sleep"
    /\ clock' = SleepEnd(proc[p], clock)
    /\ \E draws \in DrawVectors(PalmLen, PalmDelta) :
         proc' = [proc EXCEPT ![p] =
                     SetPalmPose(proc[p],
                                 IF proc[p].op = "ResetPose" THEN defaultPalmPose
                                 ELSE GetPreset(proc[p].name).PalmPose,
                                 draws, clock')]
    /\ UNCHANGED <<status, handType, mutex, ncalls, committed, failures>>

(***************************************************************************)
(* The log line of SetFingerPose / SetPalmPose after a successful          *)
(* ExecuteCommand (GetHandType), and the return to the caller.             *)
(***************************************************************************)
LogPose(p) ==
    /\ proc[p].pc = "sp_log"
    /\ CanRLock(p)
    /\ proc' = [proc EXCEPT ![p] = PoseReturn(proc[p], proc[p].stage, NoErr, clock)]
    /\ UNCHANGED <<status, handType, mutex, clock, ncalls, committed, failures>>

(***************************************************************************)
(* ExecuteCommand.                                                         *)
(*   ec_lock    at h.mutex.Lock()                                          *)
(*   ec_send    inside h.communicator.SendMessage(ctx, rawMsg)             *)
(*   ec_fail    an encoder or transport error in hand, before ErrorCount++ *)
(*   ec_fail2   after ErrorCount++, before LastError is assigned           *)
(*   ec_sent    SendMessage returned nil, before LastUpdate is assigned    *)
(***************************************************************************)
UnlockForgotten(p) ==
    /\ mutex' = mutex
    /\ committed' = status'

Unlock(p) ==
    /\ mutex' = [mutex EXCEPT !.w = @ \ {p}]
    /\ committed' = status'

UnavailableNever(st) == FALSE

Unavailable(st) == ~st.isConnected \/ ~st.isActive

(***************************************************************************)
(* Lock, the readiness check and the encoding: the device is unavailable   *)
(* (the deferred Unlock runs and the call returns), the encoder fails, or  *)
(* the frame is handed to the transport.                                   *)
(***************************************************************************)
ECDispatch(p) ==
    /\ proc[p].pc = "ec_lock"
    /\ CanLock(p)
    /\ LET r == proc[p]
           m == commandToRawMessageUnsafe(r.cmd, handType)
       IN  IF Unavailable(status)
           THEN /\ proc' = [proc EXCEPT ![p] = ECReturn(r, <<"DeviceUnavailable">>, clock)]
                /\ UNCHANGED <<status, mutex, committed, failures>>
           ELSE /\ proc' = [proc EXCEPT ![p] =
                               IF m.err # NoErr
                               THEN [r EXCEPT !.pc = "ec_fail",
                                              !.fail = <<"EncodingFailed">> \o m.err]
                               ELSE [r EXCEPT !.pc = "ec_send", !.msg = m.msg,
                                              !.tcalls = Append(@, m.msg.data[1])]]
                /\ mutex' = [mutex EXCEPT !.w = @ \cup {p}]
                /\ failures' = IF m.err # NoErr THEN failures + 1 ELSE failures
                /\ UNCHANGED <<status, committed>>
    /\ UNCHANGED <<handType, clock, ncalls>>

(***************************************************************************)
(* SendMessage returns: nil, an error of the transport, or the error of    *)
(* the 3 s deadline.                                                       *)
(***************************************************************************)
TransportReturn(p) ==
    /\ proc[p].pc = "ec_send"
    /\ \E res \in {"ok"} \cup TransportErrors :
         /\ proc' = [proc EXCEPT ![p] =
                        IF res = "ok"
                        THEN [@ EXCEPT !.pc = "ec_sent", !.retAt = clock]
                        ELSE [@ EXCEPT !.pc = "ec_fail",
                                       !.fail = <<"TransmissionFailed", res>>]]
         /\ failures' = IF res = "ok" THEN failures ELSE failures + 1
    /\ UNCHANGED <<status, handType, mutex, clock, ncalls, committed>>

CountErrorAndDrop(st) ==
    [st EXCEPT !.errorCount = @ + 1, !.isConnected = FALSE, !.isActive = FALSE]

CountErrorTwice(st) == [st EXCEPT !.errorCount = @ + 2]

CountError(st) == [st EXCEPT !.errorCount = @ + 1]

ECCountError(p) ==
    /\ proc[p].pc = "ec_fail"
    /\ status' = CountError(status)
    /\ proc' = [proc EXCEPT ![p].pc = "ec_fail2"]
    /\ UNCHANGED <<handType, mutex, clock, ncalls, committed, failures>>

ECRecordError(p) ==
    /\ proc[p].pc = "ec_fail2"
    /\ status' = [status EXCEPT !.lastError = proc[p].fail[2]]
    /\ proc' = [proc EXCEPT ![p] = ECReturn(proc[p], proc[p].fail, clock)]
    /\ Unlock(p)
    /\ UNCHANGED <<handType, clock, ncalls, failures>>

ECSuccess(p) ==
    /\ proc[p].pc = "ec_sent"
    /\ \E now \in Now :
         /\ clock' = now
         /\ status' = [status EXCEPT !.lastUpdate = now]
         /\ proc' = [proc EXCEPT ![p] = ECReturn(proc[p], NoErr, now)]
    /\ Unlock(p)
    /\ UNCHANGED <<handType, ncalls, failures>>

(***************************************************************************)
(* GetStatus: RLock, the copy of h.status, RUnlock and return.             *)
(***************************************************************************)
GSCopy(p) ==
    /\ proc[p].pc = "gs_lock"
    /\ CanRLock(p)
    /\ mutex' = [mutex EXCEPT !.r = @ \cup {p}]
    /\ proc' = [proc EXCEPT ![p].pc = "gs_copied", ![p].snap = status]
    /\ UNCHANGED <<status, handType, clock, ncalls, committed, failures>>

GSReturn(p) ==
    /\ proc[p].pc = "gs_copied"
    /\ mutex' = [mutex EXCEPT !.r = @ \ {p}]
    /\ proc' = [proc EXCEPT ![p] = OpReturn(proc[p], NoErr)]
    /\ UNCHANGED <<status, handType, clock, ncalls, committed, failures>>

(***************************************************************************)
(* Connect, Disconnect, SetHandType: Lock, the body, Unlock.               *)
(***************************************************************************)
ConnectToggles(st, now) ==
    [st EXCEPT !.isConnected = ~@, !.isActive = ~@, !.lastUpdate = now]

ConnectResetsErrors(st, now) ==
    [st EXCEPT !.isConnected = TRUE, !.isActive = TRUE, !.errorCount = 0,
               !.lastUpdate = now]

ConnectStatus(st, now) ==
    [st EXCEPT !.isConnected = TRUE, !.isActive = TRUE, !.lastUpdate = now]

DisconnectKeepsFlags(st, now) == [st EXCEPT !.lastUpdate = now]

DisconnectStatus(st, now) ==
    [st EXCEPT !.isConnected = FALSE, !.isActive = FALSE, !.lastUpdate = now]

ValidHandTypeAny(t) == TRUE

ValidHandType(t) == t \in HandTypes

Connect(p) ==
    /\ proc[p].pc = "cn_lock"
    /\ CanLock(p)
    /\ \E now \in Now :
         /\ clock' = now
         /\ status' = ConnectStatus(status, now)
    /\ committed' = status'
    /\ proc' = [proc EXCEPT ![p] = OpReturn(proc[p], NoErr)]
    /\ UNCHANGED <<handType, mutex, ncalls, failures>>

Disconnect(p) ==
    /\ proc[p].pc = "dc_lock"
    /\ CanLock(p)
    /\ \E now \in Now :
         /\ clock' = now
         /\ status' = DisconnectStatus(status, now)
    /\ committed' = status'
    /\ proc' = [proc EXCEPT ![p] = OpReturn(proc[p], NoErr)]
    /\ UNCHANGED <<handType, mutex, ncalls, failures>>

SetHandType(p) ==
    /\ proc[p].pc = "sh_lock"
    /\ CanLock(p)
    /\ IF ~ValidHandType(proc[p].name)
       THEN /\ handType' = handType
            /\ proc' = [proc EXCEPT ![p] = OpReturn(proc[p], <<"InvalidHandType">>)]
       ELSE /\ handType' = proc[p].name
            /\ proc' = [proc EXCEPT ![p] = OpReturn(proc[p], NoErr)]
    /\ UNCHANGED <<status, mutex, clock, ncalls, committed, failures>>

Next ==
    \E p \in Procs :
         \/ CallSetFingerPose(p)
         \/ CallSetPalmPose(p)
         \/ CallResetPose(p)
         \/ CallExecutePreset(p)
         \/ CallExecuteCommand(p)
         \/ CallGetStatus(p)
         \/ CallConnect(p)
         \/ CallDisconnect(p)
         \/ CallSetHandType(p)
         \/ StartFinger(p)
         \/ StartPalm(p)
         \/ LogPose(p)
         \/ ECDispatch(p)
         \/ TransportReturn(p)
         \/ ECCountError(p)
         \/ ECRecordError(p)
         \/ ECSuccess(p)
         \/ GSCopy(p)
         \/ GSReturn(p)
         \/ Connect(p)
         \/ Disconnect(p)
         \/ SetHandType(p)

Spec == Init /\ [][Next]_vars

(***************************************************************************)
(* SpecLive: each caller invokes at most one operation, any of the nine,   *)
(* concurrently with the other caller's; every goroutine that can take a   *)
(* step eventually takes one (the scheduler runs it, SendMessage returns,  *)
(* the sleep ends, the mutex is handed over).                              *)
(***************************************************************************)
Step(p) ==
    \/ StartFinger(p)
    \/ StartPalm(p)
    \/ LogPose(p)
    \/ ECDispatch(p)
    \/ TransportReturn(p)
    \/ ECCountError(p)
    \/ ECRecordError(p)
    \/ ECSuccess(p)
    \/ GSCopy(p)
    \/ GSReturn(p)
    \/ Connect(p)
    \/ Disconnect(p)
    \/ SetHandType(p)

FirstCall(p) ==
    /\ proc[p].op = "none"
    /\ \/ CallSetFingerPose(p)
       \/ CallSetPalmPose(p)
       \/ CallResetPose(p)
       \/ CallExecutePreset(p)
       \/ CallExecuteCommand(p)
       \/ CallGetStatus(p)
       \/ CallConnect(p)
       \/ CallDisconnect(p)
       \/ CallSetHandType(p)

LiveNext == \E p \in Procs : FirstCall(p) \/ Step(p)

SpecLive == Init /\ [][LiveNext]_vars /\ \A p \in Procs : WF_vars(Step(p))

(***************************************************************************)
(* SpecPerturb: one caller, one SetFingerPose or SetPalmPose call on the   *)
(* hand as constructed, with the perturbation loop taken one iteration at  *)
(* a time and rand.IntN drawing every value of its range; the call ends    *)
(* with its frame handed to the transport.                                 *)
(***************************************************************************)
PerturbCaller == "c1"

PerturbFingerInputs == { <<128, 0, 255, 1, 254, 0>>, <<1, 2, 3, 4>> }

PerturbPalmInputs == { <<128, 0, 255, 4>>, <<1, 2, 3, 4, 5, 6>> }

(***************************************************************************)
(* The call and its length check: perturbedPose is allocated, the loop     *)
(* begins.                                                                 *)
(***************************************************************************)
PerturbCall(p) ==
    /\ p = PerturbCaller
    /\ proc[p].pc = "idle"
    /\ ncalls = 0
    /\ ncalls' = 1
    /\ \/ \E pose \in PerturbFingerInputs :
            proc' = [proc EXCEPT ![p] =
                        IF Len(pose) # FingerLen
                        THEN SetFingerPose(Fresh("SetFingerPose", "none"), pose, << >>, clock)
                        ELSE [Fresh("SetFingerPose", "none") EXCEPT
                                 !.pc = "perturb", !.stage = "finger", !.pose = pose,
                                 !.cmd = NewFingerPoseCommand(<< >>)]]
       \/ \E pose \in PerturbPalmInputs :
            proc' = [proc EXCEPT ![p] =
                        IF Len(pose) # PalmLen
                        THEN SetPalmPose(Fresh("SetPalmPose", "none"), pose, << >>, clock)
                        ELSE [Fresh("SetPalmPose", "none") EXCEPT
                                 !.pc = "perturb", !.stage = "palm", !.pose = pose,
                                 !.cmd = NewPalmPoseCommand(<< >>)]]
    /\ UNCHANGED <<status, handType, mutex, clock, committed, failures>>

(***************************************************************************)
(* One iteration of the loop; after the last one the command is complete   *)
(* and ExecuteCommand is called.                                           *)
(***************************************************************************)
PerturbByte(p) ==
    /\ proc[p].pc = "perturb"
    /\ LET r == proc[p]
           i == Len(r.cmd.payload) + 1
           delta == IF r.stage = "finger" THEN FingerDelta ELSE PalmDelta
       IN  \E draw \in IntN(2 * delta + 1) :
             proc' = [proc EXCEPT ![p] =
                         [r EXCEPT !.cmd.payload = Append(@, perturb(r.pose[i], delta, draw)),
                                   !.pc = IF i = Len(r.pose) THEN "ec_lock" ELSE "perturb"]]
    /\ UNCHANGED <<status, handType, mutex, clock, ncalls, committed, failures>>

PerturbNext ==
    \E p \in Procs :
        \/ PerturbCall(p)
        \/ PerturbByte(p)
        \/ ECDispatch(p)

SpecPerturb == Init /\ [][PerturbNext]_vars

(***************************************************************************)
(* The callers inside h.communicator.SendMessage.                          *)
(***************************************************************************)
InFlight == {p \in Procs : proc[p].pc = "ec_send"}

LockWaiting == {"ec_lock", "cn_lock", "dc_lock", "sh_lock"}

(***************************************************************************)
(* C1: at most one frame of the hand is in flight to the transport: no two *)
(* SendMessage calls overlap, and while a SendMessage call is in progress  *)
(* no step changes the status or the hand type.                            *)
(***************************************************************************)
C1_OneFrameInFlight ==
    /\ [](Cardinality(InFlight) <= 1)
    /\ [][InFlight # {} => (status' = status /\ handType' = handType)]_vars

(* A frame is in flight while the other caller waits for the lock. *)
C1_Witness ==
    \E p, q \in Procs :
        /\ p # q
        /\ proc[p].pc = "ec_send"
        /\ proc[q].pc \in LockWaiting

(***************************************************************************)
(* The error chain r.ret of a returned operation holds the error e.        *)
(***************************************************************************)
HasErr(r, e) == \E i \in DOMAIN r.ret : r.ret[i] = e

(***************************************************************************)
(* C2: ExecuteCommand on a hand that is not connected or not active fails  *)
(* with the device-unavailable error, hands nothing to the transport and   *)
(* leaves the status unchanged.                                            *)
(***************************************************************************)
C2_UnavailableNoEffect ==
    [][\A p \in Procs :
          ( /\ proc[p].pc = "ec_lock"
            /\ proc'[p] # proc[p]
            /\ (~status.isConnected \/ ~status.isActive) )
          => /\ proc'[p].pc = "idle"
             /\ HasErr(proc'[p], "DeviceUnavailable")
             /\ proc'[p].tcalls = proc[p].tcalls
             /\ InFlight' = InFlight
             /\ status' = status]_vars

(* A direct ExecuteCommand has returned device-unavailable. *)
C2_Witness ==
    \E p \in Procs :
        /\ proc[p].op = "ExecuteCommand"
        /\ proc[p].pc = "idle"
        /\ proc[p].ret = <<"DeviceUnavailable">>
        /\ proc[p].tcalls = << >>
        /\ ~status.isConnected

(***************************************************************************)
(* C3: when SendMessage fails (an error of the transport or the deadline), *)
(* the dispatch leaves errorCount one higher than before it, lastError     *)
(* non-empty and both flags as before it, and returns transmission-failed. *)
(***************************************************************************)
C3_TransportFailure ==
    [][\A p \in Procs :
          ( /\ proc[p].pc = "ec_fail2"
            /\ proc[p].fail[1] = "TransmissionFailed"
            /\ proc'[p] # proc[p] )
          => /\ status'.errorCount = committed.errorCount + 1
             /\ status'.lastError # ""
             /\ status'.isConnected = committed.isConnected
             /\ status'.isActive = committed.isActive
             /\ proc'[p].pc = "idle"
             /\ HasErr(proc'[p], "TransmissionFailed")]_vars

(* A dispatch that timed out has returned; the hand is still connected. *)
C3_Witness ==
    \E p \in Procs :
        /\ proc[p].pc = "idle"
        /\ proc[p].ret = <<"TransmissionFailed", "DeadlineExceeded">>
        /\ status.errorCount = 1
        /\ status.lastError = "DeadlineExceeded"
        /\ status.isConnected /\ status.isActive

(***************************************************************************)
(* C4: SetFingerPose with a pose of a length other than 6 and SetPalmPose  *)
(* with one of a length other than 4 fail with invalid-payload-length,     *)
(* hand nothing to the transport and change no field of the hand.          *)
(***************************************************************************)
BadPose(r) ==
    \/ r.op = "SetFingerPose" /\ Len(r.pose) # FingerLen
    \/ r.op = "SetPalmPose" /\ Len(r.pose) # PalmLen

C4_InvalidLength ==
    /\ [](\A p \in Procs :
            BadPose(proc[p]) => /\ proc[p].pc = "idle"
                                /\ proc[p].ret = <<"InvalidPayloadLength">>
                                /\ proc[p].tcalls = << >>)
    /\ [][\A p \in Procs :
            (BadPose(proc'[p]) /\ proc'[p] # proc[p])
            => (status' = status /\ handType' = handType /\ mutex' = mutex)]_vars

(* A 7-byte finger pose was rejected on a hand that has counted an error. *)
C4_Witness ==
    \E p \in Procs :
        /\ proc[p].op = "SetFingerPose"
        /\ Len(proc[p].pose) = 7
        /\ proc[p].ret = <<"InvalidPayloadLength">>
        /\ status.errorCount = 1

(***************************************************************************)
(* C5: the copy of the status GetStatus takes is the status as the last    *)
(* completed operation left it, never one a dispatch has half updated.     *)
(***************************************************************************)
C5_SnapshotAtomic ==
    \A p \in Procs : proc[p].pc = "gs_copied" => proc[p].snap = committed

(* GetStatus has copied the status left by a failed dispatch. *)
C5_Witness ==
    \E p \in Procs :
        /\ proc[p].pc = "gs_copied"
        /\ proc[p].snap.errorCount = 1
        /\ proc[p].snap.lastError # ""

(***************************************************************************)
(* The step of caller p in which its ExecuteCommand call fails, and the    *)
(* error it fails with.                                                    *)
(***************************************************************************)
DispatchFails(p) ==
    /\ proc'[p] # proc[p]
    /\ \/ proc[p].pc = "ec_fail2"
       \/ proc[p].pc = "ec_lock" /\ (~status.isConnected \/ ~status.isActive)

DispatchError(p) ==
    IF proc[p].pc = "ec_fail2" THEN proc[p].fail ELSE <<"DeviceUnavailable">>

IsPrefix(s, t) == Len(s) <= Len(t) /\ s = SubSeq(t, 1, Len(s))

(***************************************************************************)
(* C6: ResetPose hands its finger frame to the transport before its palm   *)
(* frame; when its finger step fails it returns that step's error and      *)
(* hands no palm frame to the transport.                                   *)
(***************************************************************************)
C6_ResetOrder ==
    /\ [](\A p \in Procs :
            proc[p].op = "ResetPose"
            => /\ IsPrefix(proc[p].tcalls, <<FingerPrefix, PalmPrefix>>)
               /\ (proc[p].pc = "idle" /\ proc[p].stage = "finger")
                  => /\ proc[p].ret # NoErr
                     /\ IsPrefix(proc[p].tcalls, <<FingerPrefix>>))
    /\ [][\A p \in Procs :
            (proc[p].op = "ResetPose" /\ proc[p].stage = "finger" /\ DispatchFails(p))
            => /\ proc'[p].pc = "idle"
               /\ proc'[p].stage = "finger"
               /\ proc'[p].ret = DispatchError(p)
               /\ proc'[p].tcalls = proc[p].tcalls]_vars

(* A ResetPose whose finger frame the transport refused has returned. *)
C6_Witness ==
    \E p \in Procs :
        /\ proc[p].op = "ResetPose"
        /\ proc[p].pc = "idle"
        /\ proc[p].stage = "finger"
        /\ proc[p].tcalls = <<FingerPrefix>>
        /\ proc[p].ret[1] = "TransmissionFailed"

(***************************************************************************)
(* C7, as stated: a returned ExecutePreset has handed exactly one frame    *)
(* (the finger frame) to the transport for a preset with an empty palm     *)
(* pose, and exactly two (finger, then palm) for one with a 4-byte palm    *)
(* pose.                                                                   *)
(***************************************************************************)
PresetFrames(name) ==
    IF Len(GetPreset(name).PalmPose) = 0
    THEN <<FingerPrefix>>
    ELSE <<FingerPrefix, PalmPrefix>>

C7_AsStated ==
    \A p \in Procs :
        ( /\ proc[p].op = "ExecutePreset"
          /\ proc[p].name \in PresetNames
          /\ proc[p].pc = "idle" )
        => proc[p].tcalls = PresetFrames(proc[p].name)

(***************************************************************************)
(* C7, amended: an ExecutePreset that returns success has handed exactly   *)
(* one frame (the finger frame) to the transport for a preset with an      *)
(* empty palm pose, and exactly two (finger, then palm) for one with a     *)
(* 4-byte palm pose; one that fails has handed it a prefix of these; and   *)
(* the palm frame is handed over no earlier than the settle delay after    *)
(* the finger frame's SendMessage returned.                                *)
(***************************************************************************)
C7_PresetFrames ==
    \A p \in Procs :
        (proc[p].op = "ExecutePreset" /\ proc[p].name \in PresetNames)
        => /\ IsPrefix(proc[p].tcalls, PresetFrames(proc[p].name))
           /\ (proc[p].pc = "idle" /\ proc[p].ret = NoErr)
              => proc[p].tcalls = PresetFrames(proc[p].name)
           /\ (proc[p].pc = "ec_send" /\ Len(proc[p].tcalls) = 2)
              => clock >= proc[p].retAt + SettleTicks

(* One preset without a palm pose has succeeded with one frame while the
   palm frame of a preset with a palm pose is in flight. *)
C7_Witness ==
    \E p, q \in Procs :
        /\ proc[p].op = "ExecutePreset" /\ proc[p].name = "open"
        /\ proc[p].pc = "idle" /\ proc[p].ret = NoErr
        /\ proc[p].tcalls = <<FingerPrefix>>
        /\ proc[q].op = "ExecutePreset" /\ proc[q].name = "fist"
        /\ proc[q].pc = "ec_send"
        /\ proc[q].tcalls = <<FingerPrefix, PalmPrefix>>

(***************************************************************************)
(* C8: ExecutePreset with a name the catalog does not hold fails with      *)
(* preset-not-found, hands nothing to the transport and changes no field   *)
(* of the hand.                                                            *)
(***************************************************************************)
C8_UnknownPreset ==
    /\ [](\A p \in Procs :
            (proc[p].op = "ExecutePreset" /\ proc[p].name \notin PresetNames)
            => /\ proc[p].pc = "idle"
               /\ proc[p].ret = <<"PresetNotFound">>
               /\ proc[p].tcalls = << >>)
    /\ [][\A p \in Procs :
            ( /\ proc'[p].op = "ExecutePreset"
              /\ proc'[p].name \notin PresetNames
              /\ proc'[p] # proc[p] )
            => (status' = status /\ handType' = handType /\ mutex' = mutex)]_vars

(* An unknown preset was refused while a frame of the other caller is in
   flight. *)
C8_Witness ==
    \E p, q \in Procs :
        /\ proc[p].op = "ExecutePreset"
        /\ proc[p].name = "unknown"
        /\ proc[p].ret = <<"PresetNotFound">>
        /\ proc[q].pc = "ec_send"

(***************************************************************************)
(* C9: every frame handed to the transport for a finger-pose command has   *)
(* first byte 0x01 and length 7, and every frame for a palm-pose command   *)
(* has first byte 0x04 and length 5.                                       *)
(***************************************************************************)
C9_FrameShape ==
    \A p \in Procs :
        proc[p].pc = "ec_send"
        => /\ proc[p].cmd.type = "SetFingerPose"
              => /\ proc[p].msg.data[1] = FingerPrefix
                 /\ Len(proc[p].msg.data) = FingerLen + 1
           /\ proc[p].cmd.type = "SetPalmPose"
              => /\ proc[p].msg.data[1] = PalmPrefix
                 /\ Len(proc[p].msg.data) = PalmLen + 1

(***************************************************************************)
(* C10: every payload byte of the frame SetFingerPose hands to the         *)
(* transport lies within 5 of the input byte, and every one of the frame   *)
(* of SetPalmPose within 8, cut off at 0 and at 255 (no wrap-around).      *)
(***************************************************************************)
C10_PerturbBounds ==
    \A p \in Procs :
        (proc[p].pc = "ec_send" /\ proc[p].op \in {"SetFingerPose", "SetPalmPose"})
        => LET r == proc[p]
               delta == IF r.op = "SetFingerPose" THEN FingerDelta ELSE PalmDelta
           IN  /\ Len(r.msg.data) = Len(r.pose) + 1
               /\ \A i \in 1..Len(r.pose) :
                     /\ r.msg.data[i + 1] >= Max(0, r.pose[i] - delta)
                     /\ r.msg.data[i + 1] <= Min(ByteMod - 1, r.pose[i] + delta)

(* A finger frame in flight whose bytes sit at the lower end, at the upper
   end and at both cut-offs of their ranges. *)
C10_Witness ==
    \E p \in Procs :
        /\ proc[p].pc = "ec_send"
        /\ proc[p].op = "SetFingerPose"
        /\ proc[p].pose = <<128, 0, 255, 1, 254, 0>>
        /\ proc[p].msg.data = <<FingerPrefix, 123, 0, 255, 6, 249, 5>>

(***************************************************************************)
(* The positions at which a caller waits for h.mutex, for writing and for  *)
(* reading.                                                                *)
(***************************************************************************)
AcquiringWrite == {"ec_lock", "cn_lock", "dc_lock", "sh_lock"}

AcquiringRead == {"gs_lock", "start_log", "sp_log"}

Holds(p) == p \in mutex.w \/ p \in mutex.r

(***************************************************************************)
(* C18: no operation deadlocks.  With every transport call returning and   *)
(* every caller that can step stepping, every invoked operation returns,   *)
(* a caller that has returned holds the mutex neither for writing nor for  *)
(* reading, and no caller waits for the mutex while holding it.            *)
(***************************************************************************)
C18_NoDeadlock ==
    /\ \A p \in Procs : (proc[p].pc # "idle") ~> (proc[p].pc = "idle")
    /\ [](\A p \in Procs :
            /\ proc[p].pc = "idle" => ~Holds(p)
            /\ proc[p].pc \in AcquiringWrite \cup AcquiringRead => ~Holds(p))

(* A ResetPose is at the log line after its finger dispatch, the mutex
   released, while the other caller holds the mutex inside SendMessage. *)
C18_Witness ==
    \E p, q \in Procs :
        /\ proc[p].op = "ResetPose"
        /\ proc[p].pc = "sp_log"
        /\ ~Holds(p)
        /\ proc[q].pc = "ec_send"
        /\ q \in mutex.w

(***************************************************************************)
(* A command whose frame (prefix and payload) is longer than 8 bytes, and  *)
(* the errors the encoder returns for one.                                 *)
(***************************************************************************)
TooLong(cmd) ==
    /\ cmd.type \in {"SetFingerPose", "SetPalmPose"}
    /\ 1 + Len(cmd.payload) > MaxFrameLen

FrameTooLong == {"FingerFrameTooLong", "PalmFrameTooLong"}

(***************************************************************************)
(* C11, as stated: every frame handed to the transport has at most 8 data  *)
(* bytes, and an ExecuteCommand whose frame would be longer fails with the *)
(* frame-too-long error and hands nothing to the transport.                *)
(***************************************************************************)
C11_AsStated ==
    /\ [](\A p \in InFlight : Len(proc[p].msg.data) <= MaxFrameLen)
    /\ [][\A p \in Procs :
            (proc[p].pc = "ec_lock" /\ TooLong(proc[p].cmd) /\ proc'[p] # proc[p])
            => /\ proc'[p].pc = "ec_fail"
               /\ proc'[p].fail[2] \in FrameTooLong
               /\ proc'[p].tcalls = proc[p].tcalls]_vars

(***************************************************************************)
(* C11, amended: every frame handed to the transport has at most 8 data    *)
(* bytes; an ExecuteCommand whose frame would be longer hands nothing to   *)
(* the transport and fails, with the frame-too-long error on a connected   *)
(* and active hand and with device-unavailable on a hand that is not.      *)
(***************************************************************************)
C11_FrameLimit ==
    /\ [](\A p \in InFlight : Len(proc[p].msg.data) <= MaxFrameLen)
    /\ [][\A p \in Procs :
            (proc[p].pc = "ec_lock" /\ TooLong(proc[p].cmd) /\ proc'[p] # proc[p])
            => /\ proc'[p].tcalls = proc[p].tcalls
               /\ InFlight' = InFlight
               /\ IF status.isConnected /\ status.isActive
                  THEN /\ proc'[p].pc = "ec_fail"
                       /\ proc'[p].fail[1] = "EncodingFailed"
                       /\ proc'[p].fail[2] \in FrameTooLong
                  ELSE /\ proc'[p].pc = "idle"
                       /\ proc'[p].ret = <<"DeviceUnavailable">>]_vars
    /\ [][\A p \in Procs :
            (proc[p].pc = "ec_fail2" /\ proc[p].fail[2] \in FrameTooLong
               /\ proc'[p] # proc[p])
            => /\ proc'[p].pc = "idle"
               /\ proc'[p].ret = proc[p].fail
               /\ proc'[p].tcalls = << >>]_vars

(* An ExecuteCommand with a 9-byte finger frame has failed, nothing handed
   to the transport. *)
C11_Witness ==
    \E p \in Procs :
        /\ proc[p].op = "ExecuteCommand"
        /\ proc[p].pc = "idle"
        /\ proc[p].ret = <<"EncodingFailed", "FingerFrameTooLong">>
        /\ proc[p].tcalls = << >>

(***************************************************************************)
(* C12: when the encoder rejects the command of an ExecuteCommand on a     *)
(* connected and active hand (unsupported kind, frame too long), the call  *)
(* leaves errorCount one higher than before it, lastError equal to the     *)
(* encoder's error, lastUpdate and both flags as before it, and hands      *)
(* nothing to the transport.                                               *)
(***************************************************************************)
C12_EncoderFailure ==
    /\ [][\A p \in Procs :
            ( /\ proc[p].pc = "ec_lock"
              /\ status.isConnected /\ status.isActive
              /\ commandToRawMessageUnsafe(proc[p].cmd, handType).err # NoErr
              /\ proc'[p] # proc[p] )
            => /\ proc'[p].pc = "ec_fail"
               /\ proc'[p].tcalls = proc[p].tcalls
               /\ InFlight' = InFlight]_vars
    /\ [][\A p \in Procs :
            ( /\ proc[p].pc = "ec_fail2"
              /\ proc[p].fail[1] = "EncodingFailed"
              /\ proc'[p] # proc[p] )
            => /\ status' =
                    [committed EXCEPT
                        !.errorCount = @ + 1,
                        !.lastError =
                            commandToRawMessageUnsafe(proc[p].cmd, handType).err[1]]
               /\ committed.isConnected /\ committed.isActive
               /\ proc'[p].pc = "idle"
               /\ proc'[p].ret[1] = "EncodingFailed"
               /\ proc'[p].tcalls = << >>]_vars

(* An ExecuteCommand with a command of an unsupported kind has returned. *)
C12_Witness ==
    \E p \in Procs :
        /\ proc[p].op = "ExecuteCommand"
        /\ proc[p].pc = "idle"
        /\ proc[p].ret = <<"EncodingFailed", "UnsupportedCommand">>
        /\ status.errorCount = 1
        /\ status.lastError = "UnsupportedCommand"
        /\ status.lastUpdate = 0
        /\ status.isConnected /\ status.isActive

(***************************************************************************)
(* C13: errorCount is the number of dispatches so far that failed in the   *)
(* encoder or in the transport, once each such dispatch has done its       *)
(* bookkeeping (which it does before it releases the mutex).  It changes   *)
(* only in that bookkeeping, by one: not in a length check, a readiness    *)
(* check, a preset lookup, a successful dispatch, Connect, Disconnect or   *)
(* SetHandType; and it never decreases.                                    *)
(***************************************************************************)
C13_ErrorCount ==
    /\ [](status.errorCount + Cardinality({p \in Procs : proc[p].pc = "ec_fail"})
            = failures)
    /\ [](mutex.w = {} => status.errorCount = failures)
    /\ [][status'.errorCount # status.errorCount
            => /\ status'.errorCount = status.errorCount + 1
               /\ \E p \in Procs : /\ proc[p].pc = "ec_fail"
                                   /\ proc'[p].pc = "ec_fail2"]_vars

(* One dispatch has failed in the encoder and one in the transport:
   errorCount is 2. *)
C13_Witness ==
    \E p, q \in Procs :
        /\ proc[p].pc = "idle" /\ HasErr(proc[p], "EncodingFailed")
        /\ proc[q].pc = "idle" /\ HasErr(proc[q], "TransmissionFailed")
        /\ mutex.w = {}
        /\ failures = 2
        /\ status.errorCount = 2

(***************************************************************************)
(* Caller p is in the second of two calls of op in a row: it invoked op    *)
(* right after its previous op returned, and no other caller has invoked   *)
(* anything.                                                               *)
(***************************************************************************)
SecondInARow(p, op, at) ==
    /\ proc[p].pc = at
    /\ proc[p].op = op
    /\ proc[p].prev = op
    /\ \A q \in Procs \ {p} : proc[q].op = "none"

(***************************************************************************)
(* C14, as stated: the second of two Connect calls in a row leaves the     *)
(* status (isConnected, isActive, errorCount, lastError, lastUpdate) as    *)
(* the first left it, and likewise for Disconnect.                         *)
(***************************************************************************)
C14_AsStated ==
    [][\A p \in Procs :
          ( /\ \/ SecondInARow(p, "Connect", "cn_lock")
               \/ SecondInARow(p, "Disconnect", "dc_lock")
            /\ proc'[p] # proc[p] )
          => status' = status]_vars

(***************************************************************************)
(* C14, amended: the second of two Connect calls in a row leaves           *)
(* isConnected, isActive, errorCount and lastError as the first left them  *)
(* and sets lastUpdate to the time of the second call, and likewise for    *)
(* Disconnect.                                                             *)
(***************************************************************************)
C14_Idempotent ==
    [][\A p \in Procs :
          ( /\ \/ SecondInARow(p, "Connect", "cn_lock")
               \/ SecondInARow(p, "Disconnect", "dc_lock")
            /\ proc'[p] # proc[p] )
          => /\ status' = [status EXCEPT !.lastUpdate = clock']
             /\ status'.lastUpdate >= status.lastUpdate
             /\ status'.isConnected = (proc[p].op = "Connect")
             /\ status'.isActive = (proc[p].op = "Connect")]_vars

(* The second of two Connect calls in a row has returned, one tick after
   the hand was constructed. *)
C14_Witness ==
    \E p \in Procs :
        /\ SecondInARow(p, "Connect", "idle")
        /\ status.isConnected /\ status.isActive
        /\ status.lastUpdate = 1

(***************************************************************************)
(* The positions of a caller inside ExecuteCommand.                        *)
(***************************************************************************)
Dispatching == {"ec_lock", "ec_send", "ec_sent", "ec_fail", "ec_fail2"}

(***************************************************************************)
(* C15: isConnected and isActive change only in the step of a Connect      *)
(* (which sets them) or of a Disconnect (which clears them); no step of a  *)
(* dispatch, whatever its outcome, changes either.                         *)
(***************************************************************************)
C15_FlagsOnlyByConnect ==
    /\ [][(status'.isConnected # status.isConnected
             \/ status'.isActive # status.isActive)
            => \E p \in Procs :
                  /\ proc'[p].pc = "idle"
                  /\ \/ /\ proc[p].pc = "cn_lock"
                        /\ status'.isConnected /\ status'.isActive
                     \/ /\ proc[p].pc = "dc_lock"
                        /\ ~status'.isConnected /\ ~status'.isActive]_vars
    /\ [][\A p \in Procs :
            (proc[p].pc \in Dispatching /\ proc'[p] # proc[p])
            => /\ status'.isConnected = status.isConnected
               /\ status'.isActive = status.isActive]_vars

(* A dispatch has failed in the transport and another has succeeded; the
   hand is connected and active as constructed. *)
C15_Witness ==
    \E p, q \in Procs :
        /\ proc[p].pc = "idle"
        /\ proc[p].ret = <<"TransmissionFailed", "TransportError">>
        /\ proc[q].pc = "idle"
        /\ proc[q].op = "SetPalmPose"
        /\ proc[q].ret = NoErr
        /\ proc[q].tcalls = <<PalmPrefix>>
        /\ status.isConnected /\ status.isActive

(***************************************************************************)
(* C16: the frame a dispatch hands to the transport carries the hand type  *)
(* of the hand as it is during that dispatch (SetHandType cannot run while *)
(* the frame is in flight); the hand type is always left or right; and     *)
(* SetHandType with any other value fails and leaves it unchanged.         *)
(***************************************************************************)
C16_ArbitrationId ==
    /\ [](handType \in HandTypes)
    /\ [](\A p \in InFlight : proc[p].msg.id = handType)
    /\ [][\A p \in Procs :
            (proc[p].pc = "ec_lock" /\ proc'[p].pc = "ec_send")
            => proc'[p].msg.id = handType]_vars
    /\ [][\A p \in Procs :
            ( /\ proc[p].pc = "sh_lock"
              /\ proc[p].name \notin HandTypes
              /\ proc'[p] # proc[p] )
            => /\ handType' = handType
               /\ proc'[p].ret = <<"InvalidHandType">>]_vars
    /\ [][handType' # handType
            => /\ InFlight = {}
               /\ \E p \in Procs : /\ proc[p].pc = "sh_lock"
                                   /\ handType' = proc[p].name]_vars

(* After a SetHandType to left, a frame with the id of the left hand is in
   flight. *)
C16_Witness ==
    \E p, q \in Procs :
        /\ proc[q].op = "SetHandType"
        /\ proc[q].name = "left"
        /\ proc[q].pc = "idle"
        /\ proc[p].pc = "ec_send"
        /\ proc[p].msg.id = "left"

(***************************************************************************)
(* Caller q is in a ResetPose whose frame of the given kind the transport  *)
(* has accepted (q is at the log line after that dispatch, or in the sleep *)
(* after it); q's cmd is still the command of that frame.                  *)
(***************************************************************************)
ResetFrameSent(q, kind) ==
    /\ proc[q].op = "ResetPose"
    /\ proc[q].stage = kind
    /\ proc[q].pc \in {"sp_log", "sleep"}

(***************************************************************************)
(* C17: any two ResetPose invocations on a connected, active hand with a   *)
(* succeeding transport transmit the same finger frame bytes and the same  *)
(* palm frame bytes.                                                       *)
(***************************************************************************)
C17_ResetReproducible ==
    \A p, q \in Procs :
        \A kind \in {"finger", "palm"} :
            ( /\ proc[p].op = "ResetPose"
              /\ proc[p].stage = kind
              /\ proc[p].pc = "ec_send"
              /\ ResetFrameSent(q, kind) )
            => SubSeq(proc[p].msg.data, 2, Len(proc[p].msg.data)) = proc[q].cmd.payload

(***************************************************************************)
(* The operations that dispatch a finger frame and then a palm frame.      *)
(***************************************************************************)
TwoStepOps == {"ResetPose", "ExecutePreset"}

(***************************************************************************)
(* C19: once a Disconnect has taken effect no frame is handed to the       *)
(* transport until a Connect takes effect: the Disconnect leaves both      *)
(* flags false and nothing in flight, only a Connect makes a flag true     *)
(* again, a dispatch hands its frame over only with both flags true, and   *)
(* the palm step of a ResetPose or ExecutePreset that finds the hand       *)
(* disconnected fails with device-unavailable, its palm frame not sent.    *)
(***************************************************************************)
C19_NoFrameAfterDisconnect ==
    /\ [][\A p \in Procs :
            (proc[p].pc = "dc_lock" /\ proc'[p] # proc[p])
            => /\ ~status'.isConnected /\ ~status'.isActive
               /\ InFlight' = {}]_vars
    /\ [][(~status.isConnected /\ status'.isConnected)
            \/ (~status.isActive /\ status'.isActive)
            => \E p \in Procs : proc[p].pc = "cn_lock" /\ proc'[p].pc = "idle"]_vars
    /\ [](InFlight # {} => status.isConnected /\ status.isActive)
    /\ [][\A p \in Procs :
            (proc[p].pc = "ec_lock" /\ proc'[p].pc = "ec_send")
            => status.isConnected /\ status.isActive]_vars
    /\ [][\A p \in Procs :
            ( /\ proc[p].op \in TwoStepOps
              /\ proc[p].stage = "palm"
              /\ proc[p].pc = "ec_lock"
              /\ ~status.isConnected
              /\ proc'[p] # proc[p] )
            => /\ proc'[p].pc = "idle"
               /\ HasErr(proc'[p], "DeviceUnavailable")
               /\ proc'[p].tcalls = <<FingerPrefix>>]_vars

(* A Disconnect ran between the finger step and the palm step of a
   ResetPose, which has returned device-unavailable, its palm frame not
   sent. *)
C19_Witness ==
    \E p, q \in Procs :
        /\ proc[q].op = "Disconnect"
        /\ proc[q].pc = "idle"
        /\ proc[p].op = "ResetPose"
        /\ proc[p].pc = "idle"
        /\ proc[p].stage = "palm"
        /\ proc[p].ret = <<"DeviceUnavailable">>
        /\ proc[p].tcalls = <<FingerPrefix>>
        /\ ~status.isConnected /\ ~status.isActive

(***************************************************************************)
(* C20: ResetPose and ExecutePreset do not hold the mutex from their       *)
(* finger dispatch to their palm dispatch: between the two (at the log     *)
(* line after the finger dispatch, in the sleep, waiting for the lock of   *)
(* the palm dispatch) the caller holds no lock, so another caller's frame  *)
(* can go out in between; and a palm step that fails returns its error     *)
(* with the finger frame sent and nothing sent after it.                   *)
(***************************************************************************)
BetweenSteps(p) ==
    /\ proc[p].op \in TwoStepOps
    /\ \/ proc[p].stage = "finger" /\ proc[p].pc \in {"sp_log", "sleep"}
       \/ proc[p].stage = "palm" /\ proc[p].pc = "ec_lock"

C20_NotAtomic ==
    /\ [](\A p \in Procs :
            BetweenSteps(p) => (~Holds(p) /\ proc[p].tcalls = <<FingerPrefix>>))
    /\ [][\A p \in Procs :
            (proc[p].op \in TwoStepOps /\ proc[p].stage = "palm" /\ DispatchFails(p))
            => /\ proc'[p].pc = "idle"
               /\ proc'[p].ret # NoErr
               /\ proc'[p].tcalls = proc[p].tcalls
               /\ proc'[p].tcalls[1] = FingerPrefix
               /\ InFlight' = {}]_vars

(* The finger frame of a ResetPose has been sent and its palm frame not
   yet, and a frame of the other caller is in flight. *)
C20_Witness ==
    \E p, q \in Procs :
        /\ proc[p].op = "ResetPose"
        /\ BetweenSteps(p)
        /\ proc[p].pc = "sleep"
        /\ proc[q].pc = "ec_send"
        /\ q \in mutex.w

=============================================================================
